---------------------------- MODULE Spec2Model ----------------------------
(***************************************************************************)
(* pyw3mimg: W3MImageDisplay, a client of the w3mimgdisplay helper.        *)
(*                                                                         *)
(* The session object owns one helper process (subprocess.Popen) and talks *)
(* to it over the helper's stdin/stdout.  The model records every call the *)
(* object makes on the process handle (stdin.write, stdin.flush,           *)
(* stdout.readline, communicate) in `trace`, as a substituted process      *)
(* object would see them, together with a marker for each public call.     *)
(*                                                                         *)
(* Bytes are sequences of integers 0..255, text (str) is a sequence of     *)
(* code points.  A Python value that may be str or bytes is a record       *)
(* [kind, val].                                                            *)
(***************************************************************************)
EXTENDS Integers, Sequences, FiniteSets

(***************************************************************************)
(* Bounds of the model.                                                    *)
(***************************************************************************)
\* public calls made on one session before it is torn down
MaxOps == 3
\* length of a helper response line, its newline not counted
MaxLineLen == 4

(***************************************************************************)
(* W3MOpcode (enum.IntEnum).                                               *)
(***************************************************************************)
DRAW == 0
REDRAW == 1
TERMINATE == 2
SYNC_DRAWING == 3
SYNC_COMMUNICATION == 4
GET_SIZE == 5
CLEAR_IMAGE == 6

(***************************************************************************)
(* Python primitives the code relies on.                                   *)
(***************************************************************************)
\* the decimal digits of a natural number, most significant first
RECURSIVE Digits(_)
Digits(n) ==
    IF n < 10 THEN <<48 + n>> ELSE Digits(n \div 10) \o <<48 + (n % 10)>>

\* b'%d' % n for an int n: a minus sign for negatives, no padding
FmtD(n) == IF n < 0 THEN <<45>> \o Digits(0 - n) ELSE Digits(n)

\* UTF-8 of one code point below U+0800
Utf8(cp) ==
    IF cp < 128 THEN <<cp>> ELSE <<192 + (cp \div 64), 128 + (cp % 64)>>

\* str.encode(): UTF-8 (the default encoding) of a text
RECURSIVE Encode(_)
Encode(t) == IF t = <<>> THEN <<>> ELSE Utf8(Head(t)) \o Encode(Tail(t))

Str(t) == [kind |-> "str", val |-> t]
Bytes(b) == [kind |-> "bytes", val |-> b]

\* a keyword parameter with default 0: <<>> when the caller omits it
Default0(v) == IF v = <<>> THEN 0 ELSE v[1]

(***************************************************************************)
(* Events on the process handle, and the marker of a public call.          *)
(***************************************************************************)
Ev(k, a, d, ok) == [k |-> k, a |-> a, d |-> d, ok |-> ok]
CallEv(op) == Ev("call", op, <<>>, TRUE)
ReadlineEv(line) == Ev("readline", "", line, TRUE)
CommunicateEv == Ev("communicate", "", <<>>, TRUE)

NoArgs == [n |-> 0, x |-> 0, y |-> 0, w |-> <<>>, h |-> <<>>,
           sx |-> <<>>, sy |-> <<>>, sw |-> <<>>, sh |-> <<>>]
NoPath == Bytes(<<>>)

Outcome(op, path, args, ret, err) ==
    [op |-> op, path |-> path, args |-> args, ret |-> ret, err |-> err]

VARIABLES
    phase,      \* "new", "running", "failed" (__init__ raised), "deleted"
    hasProc,    \* the attribute self._proc is set
    auto_sync,  \* self._auto_sync
    alive,      \* the helper still holds the read end of its stdin pipe
    trace,      \* public calls and the calls made on the process handle
    last,       \* the last public call: its arguments and how it ended
    budget      \* public calls the caller still makes before teardown

vars == <<phase, hasProc, auto_sync, alive, trace, last, budget>>

(***************************************************************************)
(* W3MImageDisplay.write: stdin.write(data) into the buffered stream, then *)
(* stdin.flush(), which raises BrokenPipeError once the helper is gone.    *)
(***************************************************************************)
WriteIO(data, up) == <<Ev("write", "", data, TRUE), Ev("flush", "", <<>>, up)>>
WriteErr(up) == IF up THEN "" ELSE "BrokenPipeError"

Init ==
    /\ phase = "new"
    /\ hasProc = FALSE
    /\ auto_sync = TRUE
    /\ alive = FALSE
    /\ trace = <<>>
    /\ last = Outcome("none", NoPath, NoArgs, <<>>, "")
    /\ budget = MaxOps

(***************************************************************************)
(* __init__: subprocess.Popen(path, stdin=PIPE, stdout=PIPE).              *)
(***************************************************************************)
\* the host's files: "/w" is the helper, "/e" is a file that cannot be executed,
\* and there is no "/x"
Present == {<<47, 119>>, <<47, 101>>}
Launchable == {<<47, 119>>}
Executables == {<<47, 119>>, <<47, 101>>, <<47, 120>>}

\* Popen that fails for a missing file only
PopenErrMissingOnly(exe) ==
    IF exe \notin Present THEN "FileNotFoundError" ELSE ""

\* the exception Popen raises for an executable, "" when it spawns
PopenErr(exe) ==
    IF exe \notin Present THEN "FileNotFoundError"
    ELSE IF exe \notin Launchable THEN "PermissionError"
    ELSE ""

Construct(exe, sync) ==
    /\ phase = "new"
    /\ auto_sync' = sync
    /\ hasProc' = (PopenErr(exe) = "")
    /\ alive' = (PopenErr(exe) = "")
    /\ phase' = IF PopenErr(exe) = "" THEN "running" ELSE "failed"
    /\ trace' = trace
    /\ last' = Outcome("__init__", Str(exe), NoArgs, <<>>, PopenErr(exe))
    /\ UNCHANGED budget

(***************************************************************************)
(* An operation on a constructed session: the call marker, the calls it    *)
(* makes on the process handle, and how it ends.                           *)
(***************************************************************************)
Call(op, path, args, io, ret, err) ==
    /\ phase = "running"
    /\ budget > 0
    /\ budget' = budget - 1
    /\ trace' = trace \o <<CallEv(op)>> \o io
    /\ last' = Outcome(op, path, args, ret, err)
    /\ UNCHANGED <<phase, hasProc, auto_sync, alive>>

(***************************************************************************)
(* sync, terminate.                                                        *)
(***************************************************************************)
\* b'3;\n'
SyncIO == WriteIO(<<51, 59, 10>>, alive)

Sync == Call("sync", NoPath, NoArgs, SyncIO, <<>>, WriteErr(alive))

\* terminate() that writes b'2\n', its semicolon forgotten
TerminateIONoSemi == WriteIO(<<50, 10>>, alive)

\* b'2;\n'
TerminateIO == WriteIO(<<50, 59, 10>>, alive)

Terminate == Call("terminate", NoPath, NoArgs, TerminateIO, <<>>, WriteErr(alive))

(***************************************************************************)
(* _draw, draw, redraw.                                                    *)
(***************************************************************************)
\* the line with w and h in each other's place
DrawLineSwapped(op, path, a) ==
    FmtD(op) \o <<59>> \o FmtD(a.n) \o <<59>> \o FmtD(a.x) \o <<59>>
    \o FmtD(a.y) \o <<59>> \o FmtD(Default0(a.h)) \o <<59>>
    \o FmtD(Default0(a.w)) \o <<59>> \o FmtD(Default0(a.sx)) \o <<59>>
    \o FmtD(Default0(a.sy)) \o <<59>> \o FmtD(Default0(a.sw)) \o <<59>>
    \o FmtD(Default0(a.sh)) \o <<59>> \o Encode(path.val) \o <<10>>

\* b'%d;%d;%d;%d;%d;%d;%d;%d;%d;%d;%s\n' % (op, n, x, y, w, h, sx, sy, sw, sh,
\* path.encode())
DrawLine(op, path, a) ==
    FmtD(op) \o <<59>> \o FmtD(a.n) \o <<59>> \o FmtD(a.x) \o <<59>>
    \o FmtD(a.y) \o <<59>> \o FmtD(Default0(a.w)) \o <<59>>
    \o FmtD(Default0(a.h)) \o <<59>> \o FmtD(Default0(a.sx)) \o <<59>>
    \o FmtD(Default0(a.sy)) \o <<59>> \o FmtD(Default0(a.sw)) \o <<59>>
    \o FmtD(Default0(a.sh)) \o <<59>> \o Encode(path.val) \o <<10>>

\* _draw without its "if self._auto_sync: self.sync()"
DrawIONoSync(op, path, a) ==
    IF path.kind # "str" THEN <<>> ELSE WriteIO(DrawLine(op, path, a), alive)

\* path.encode() exists on str only; the sync follows a write that returned
DrawIO(op, path, a) ==
    IF path.kind # "str" THEN <<>>
    ELSE WriteIO(DrawLine(op, path, a), alive)
         \o (IF alive /\ auto_sync THEN SyncIO ELSE <<>>)

DrawErr(path) == IF path.kind # "str" THEN "AttributeError" ELSE WriteErr(alive)

Draw(path, a) ==
    Call("draw", path, a, DrawIO(DRAW, path, a), <<>>, DrawErr(path))

Redraw(path, a) ==
    Call("redraw", path, a, DrawIO(REDRAW, path, a), <<>>, DrawErr(path))

(***************************************************************************)
(* nop: the command, then one line read and dropped.                       *)
(***************************************************************************)
\* nop() that leaves the helper's answer unread
NopIONoRead(line) == WriteIO(<<52, 59, 10>>, alive)

\* b'4;\n', then stdout.readline()
NopIO(line) ==
    WriteIO(<<52, 59, 10>>, alive) \o (IF alive THEN <<ReadlineEv(line)>> ELSE <<>>)

Nop(line) == Call("nop", NoPath, NoArgs, NopIO(line), <<>>, WriteErr(alive))

(***************************************************************************)
(* get_size.                                                               *)
(***************************************************************************)
\* bytes.decode() accepts this input (strict UTF-8, code points below U+0800)
RECURSIVE DecodeOK(_)
DecodeOK(b) ==
    \/ b = <<>>
    \/ b[1] < 128 /\ DecodeOK(Tail(b))
    \/ /\ b[1] \in 194..223
       /\ Len(b) >= 2
       /\ b[2] \in 128..191
       /\ DecodeOK(Tail(Tail(b)))

RECURSIVE Decode(_)
Decode(b) ==
    IF b = <<>> THEN <<>>
    ELSE IF b[1] < 128 THEN <<b[1]>> \o Decode(Tail(b))
    ELSE <<(b[1] - 192) * 64 + (b[2] - 128)>> \o Decode(Tail(Tail(b)))

\* str.split(" "): cut at every single space, empty fields kept
RECURSIVE SplitSpace(_)
SplitSpace(t) ==
    IF \A i \in 1..Len(t) : t[i] # 32 THEN <<t>>
    ELSE LET i == CHOOSE j \in 1..Len(t) :
                      t[j] = 32 /\ \A k \in 1..(j - 1) : t[k] # 32
         IN <<SubSeq(t, 1, i - 1)>> \o SplitSpace(SubSeq(t, i + 1, Len(t)))

\* the characters str.strip() and int() treat as white space
IsSpace(c) == c \in {9, 10, 11, 12, 13, 28, 29, 30, 31, 32, 133, 160}

RECURSIVE LStrip(_)
LStrip(t) == IF t # <<>> /\ IsSpace(t[1]) THEN LStrip(Tail(t)) ELSE t

RECURSIVE RStrip(_)
RStrip(t) ==
    IF t # <<>> /\ IsSpace(t[Len(t)]) THEN RStrip(SubSeq(t, 1, Len(t) - 1)) ELSE t

IsDigit(c) == c \in 48..57

\* the part of an int() literal after white space and sign are removed
IntBody(t) ==
    LET u == LStrip(RStrip(t))
    IN IF u # <<>> /\ u[1] \in {43, 45} THEN Tail(u) ELSE u

\* int(t) accepts t: digits, single underscores only between two digits
IntOK(t) ==
    LET d == IntBody(t)
    IN /\ d # <<>>
       /\ \A i \in 1..Len(d) :
             \/ IsDigit(d[i])
             \/ /\ d[i] = 95
                /\ 1 < i
                /\ i < Len(d)
                /\ IsDigit(d[i - 1])
                /\ IsDigit(d[i + 1])

RECURSIVE DigitsVal(_)
DigitsVal(d) ==
    IF d = <<>> THEN 0
    ELSE IF d[Len(d)] = 95 THEN DigitsVal(SubSeq(d, 1, Len(d) - 1))
    ELSE DigitsVal(SubSeq(d, 1, Len(d) - 1)) * 10 + (d[Len(d)] - 48)

\* int(t) for an accepted t
IntVal(t) ==
    LET u == LStrip(RStrip(t))
    IN IF u[1] = 45 THEN 0 - DigitsVal(IntBody(t)) ELSE DigitsVal(IntBody(t))

\* a parse that reports a missing second field as a ValueError
ParseErrValueOnly(line) ==
    IF ~DecodeOK(line) THEN "UnicodeDecodeError"
    ELSE LET wh == SplitSpace(Decode(line))
         IN IF ~IntOK(wh[1]) THEN "ValueError"
            ELSE IF Len(wh) < 2 THEN "ValueError"
            ELSE IF ~IntOK(wh[2]) THEN "ValueError"
            ELSE ""

\* wh = line.decode().split(" "); return int(wh[0]), int(wh[1])
ParseErr(line) ==
    IF ~DecodeOK(line) THEN "UnicodeDecodeError"
    ELSE LET wh == SplitSpace(Decode(line))
         IN IF ~IntOK(wh[1]) THEN "ValueError"
            ELSE IF Len(wh) < 2 THEN "IndexError"
            ELSE IF ~IntOK(wh[2]) THEN "ValueError"
            ELSE ""

\* return int(wh[1]), int(wh[0])
ParseSizeSwapped(line) ==
    LET wh == SplitSpace(Decode(line))
    IN <<IntVal(wh[2]), IntVal(wh[1])>>

ParseSize(line) ==
    LET wh == SplitSpace(Decode(line))
    IN <<IntVal(wh[1]), IntVal(wh[2])>>

\* b'5;%s\n' % path: %s takes bytes-like objects only
GetSizeCmd(path) == <<53, 59>> \o path.val \o <<10>>

GetSizeIO(path, line) ==
    IF path.kind # "bytes" THEN <<>>
    ELSE WriteIO(GetSizeCmd(path), alive)
         \o (IF alive THEN <<ReadlineEv(line)>> ELSE <<>>)

GetSizeErr(path, line) ==
    IF path.kind # "bytes" THEN "TypeError"
    ELSE IF ~alive THEN WriteErr(alive)
    ELSE ParseErr(line)

GetSizeRet(path, line) ==
    IF GetSizeErr(path, line) = "" THEN ParseSize(line) ELSE <<>>

GetSize(path, line) ==
    Call("get_size", path, NoArgs, GetSizeIO(path, line),
         GetSizeRet(path, line), GetSizeErr(path, line))

(***************************************************************************)
(* clear, and the public write.                                            *)
(***************************************************************************)
\* b'6;%d;%d;%d;%d\n' % (x, y, w, h)
ClearLine(a) ==
    <<54, 59>> \o FmtD(a.x) \o <<59>> \o FmtD(a.y) \o <<59>>
    \o FmtD(Default0(a.w)) \o <<59>> \o FmtD(Default0(a.h)) \o <<10>>

Clear(a) ==
    Call("clear", NoPath, a, WriteIO(ClearLine(a), alive), <<>>, WriteErr(alive))

Write(data) ==
    Call("write", Bytes(data), NoArgs, WriteIO(data, alive), <<>>, WriteErr(alive))

(***************************************************************************)
(* __del__: self.terminate(), then self._proc.communicate().  An exception *)
(* of terminate() leaves __del__ before communicate() (the interpreter     *)
(* reports and drops it).  Without self._proc, terminate() raises          *)
(* AttributeError in write().                                              *)
(***************************************************************************)
DelIO ==
    IF ~hasProc THEN <<>>
    ELSE TerminateIO \o (IF alive THEN <<CommunicateEv>> ELSE <<>>)

DelErr == IF ~hasProc THEN "AttributeError" ELSE WriteErr(alive)

Del ==
    /\ phase \in {"running", "failed"}
    /\ trace' = trace \o <<CallEv("__del__")>> \o DelIO
    /\ last' = Outcome("__del__", NoPath, NoArgs, <<>>, DelErr)
    /\ phase' = "deleted"
    /\ alive' = FALSE
    /\ UNCHANGED <<hasProc, auto_sync, budget>>

(***************************************************************************)
(* The helper leaves on its own (it crashed, or it obeyed a terminate      *)
(* command): its end of the pipes is closed.                               *)
(***************************************************************************)
HelperExit ==
    /\ phase = "running"
    /\ alive
    /\ alive' = FALSE
    /\ UNCHANGED <<phase, hasProc, auto_sync, trace, last, budget>>

(***************************************************************************)
(* Inputs.                                                                 *)
(***************************************************************************)
Args(n, x, y, w, h, sx, sy, sw, sh) ==
    [n |-> n, x |-> x, y |-> y, w |-> w, h |-> h,
     sx |-> sx, sy |-> sy, sw |-> sw, sh |-> sh]

\* "/a", and a non-ASCII path that holds a semicolon: "é;"
TextPaths == {<<47, 97>>, <<233, 59>>}

DrawPaths == {Str(<<233, 59>>), Bytes(<<47, 97>>)}

SizePaths == {Str(<<47, 97>>), Bytes(<<47, 97>>)}

\* draw(path, 1, 0, 0, 64, 64)
SomeArgs == {Args(1, 0, 0, <<64>>, <<64>>, <<>>, <<>>, <<>>, <<>>)}

\* clear(0, -1, 3, 105)
ClearArgs == {Args(0, 0, 0 - 1, <<3>>, <<105>>, <<>>, <<>>, <<>>, <<>>)}

\* "100 200\n", "abc\n", "5\n"
SomeLines == {<<49, 48, 48, 32, 50, 48, 48, 10>>, <<97, 98, 99, 10>>, <<53, 10>>}

\* "4;\n" and "x"
RawData == {<<52, 59, 10>>, <<120>>}

Next ==
    \/ \E exe \in Executables, sync \in BOOLEAN : Construct(exe, sync)
    \/ \E path \in DrawPaths, a \in SomeArgs : Draw(path, a)
    \/ \E path \in DrawPaths, a \in SomeArgs : Redraw(path, a)
    \/ Terminate
    \/ Sync
    \/ \E line \in SomeLines : Nop(line)
    \/ \E path \in SizePaths, line \in SomeLines : GetSize(path, line)
    \/ \E a \in ClearArgs : Clear(a)
    \/ \E data \in RawData : Write(data)
    \/ Del
    \/ HelperExit

Spec == Init /\ [][Next]_vars

(***************************************************************************)
(* One draw or redraw on a fresh session, over wide arguments.             *)
(***************************************************************************)
ArgVals == {0 - 12, 0, 105}

OptVals == {<<>>, <<0 - 3>>, <<64>>}

AllArgs ==
    {Args(n, x, y, w, h, sx, sy, sw, sh) :
        n \in ArgVals, x \in ArgVals, y \in ArgVals, w \in OptVals,
        h \in OptVals, sx \in OptVals, sy \in OptVals, sw \in OptVals,
        sh \in OptVals}

AllDrawPaths == {Str(t) : t \in TextPaths} \cup {Bytes(<<47, 97>>)}

\* a session right after construction; the helper may be gone already
InitOne ==
    /\ phase = "running"
    /\ hasProc = TRUE
    /\ auto_sync \in BOOLEAN
    /\ alive \in BOOLEAN
    /\ trace = <<>>
    /\ last = Outcome("__init__", Str(<<47, 119>>), NoArgs, <<>>, "")
    /\ budget = 1

NextDraw ==
    \/ budget > 0 /\ \E path \in AllDrawPaths, a \in AllArgs : Draw(path, a)
    \/ budget > 0 /\ \E path \in AllDrawPaths, a \in AllArgs : Redraw(path, a)

SpecDraw == InitOne /\ [][NextDraw]_vars

(***************************************************************************)
(* One get_size on a fresh session, over every short response line.        *)
(***************************************************************************)
\* "1", "2", " ", tab, "a", "-", "+", "_", and a byte no UTF-8 text holds
LineBytes == {49, 50, 32, 9, 97, 45, 43, 95, 255}

RECURSIVE BytesUpTo(_)
BytesUpTo(n) ==
    IF n = 0 THEN {<<>>}
    ELSE LET S == BytesUpTo(n - 1)
         IN S \cup {Append(s, c) : s \in S, c \in LineBytes}

\* readline() returns one line, its newline included
AllLines == {Append(s, 10) : s \in BytesUpTo(MaxLineLen)}

NextSize ==
    budget > 0 /\ \E path \in SizePaths, line \in AllLines : GetSize(path, line)

SpecSize == InitOne /\ [][NextSize]_vars

(***************************************************************************)
(* Vocabulary of the properties.                                           *)
(***************************************************************************)
IsCall(i, ops) == trace[i].k = "call" /\ trace[i].a \in ops

\* the call marked at i handed its command to the helper: write, flush passed
Issued(i) ==
    /\ Len(trace) >= i + 2
    /\ trace[i + 1].k = "write"
    /\ trace[i + 2].k = "flush"
    /\ trace[i + 2].ok

\* the call marked at i made no more than n calls on the process handle
EndsAfter(i, n) == Len(trace) = i + n \/ trace[i + n + 1].k = "call"

LastCall ==
    CHOOSE i \in 1..Len(trace) :
        trace[i].k = "call" /\ \A j \in (i + 1)..Len(trace) : trace[j].k # "call"

\* what the last public call did on the process handle
LastIO == SubSeq(trace, LastCall + 1, Len(trace))

NoNewline(t) == \A i \in 1..Len(t) : t[i] # 10

RECURSIVE NatVal(_)
NatVal(s) ==
    IF s = <<>> THEN 0
    ELSE NatVal(SubSeq(s, 1, Len(s) - 1)) * 10 + (s[Len(s)] - 48)

\* s is the decimal numeral of the natural number n
IsNat(s, n) ==
    /\ s # <<>>
    /\ \A i \in 1..Len(s) : s[i] \in 48..57
    /\ Len(s) > 1 => s[1] # 48
    /\ NatVal(s) = n

\* s is how the integer n is written: "{n}"
IsDec(s, n) ==
    IF n < 0 THEN s # <<>> /\ s[1] = 45 /\ IsNat(Tail(s), 0 - n) ELSE IsNat(s, n)

\* b holds the text t as raw (UTF-8) bytes
RECURSIVE IsUtf8Of(_, _)
IsUtf8Of(b, t) ==
    IF t = <<>> THEN b = <<>>
    ELSE IF t[1] < 128
         THEN b # <<>> /\ b[1] = t[1] /\ IsUtf8Of(Tail(b), Tail(t))
         ELSE /\ Len(b) >= 2
              /\ b[1] = 192 + (t[1] \div 64)
              /\ b[2] = 128 + (t[1] % 64)
              /\ IsUtf8Of(Tail(Tail(b)), Tail(t))

\* s cut at its first k semicolons
RECURSIVE Fields(_, _)
Fields(s, k) ==
    IF k = 0 \/ \A i \in 1..Len(s) : s[i] # 59 THEN <<s>>
    ELSE LET i == CHOOSE j \in 1..Len(s) :
                      s[j] = 59 /\ \A m \in 1..(j - 1) : s[m] # 59
         IN <<SubSeq(s, 1, i - 1)>> \o Fields(SubSeq(s, i + 1, Len(s)), k - 1)

\* line is "{opc};{n};{x};{y};{w};{h};{sx};{sy};{sw};{sh};{path}\n", an omitted
\* parameter standing for 0
IsDrawLine(line, opc, text, a) ==
    LET f == Fields(line, 10)
        opt(v) == IF v = <<>> THEN 0 ELSE v[1]
    IN /\ Len(f) = 11
       /\ IsDec(f[1], opc)
       /\ IsDec(f[2], a.n)
       /\ IsDec(f[3], a.x)
       /\ IsDec(f[4], a.y)
       /\ IsDec(f[5], opt(a.w))
       /\ IsDec(f[6], opt(a.h))
       /\ IsDec(f[7], opt(a.sx))
       /\ IsDec(f[8], opt(a.sy))
       /\ IsDec(f[9], opt(a.sw))
       /\ IsDec(f[10], opt(a.sh))
       /\ f[11] # <<>>
       /\ f[11][Len(f[11])] = 10
       /\ IsUtf8Of(SubSeq(f[11], 1, Len(f[11]) - 1), text)

(***************************************************************************)
(* C1.  draw(path, n, x, y, w, h, sx, sy, sw, sh) with a text path that    *)
(* holds no newline writes exactly the line                                *)
(* "0;{n};{x};{y};{w};{h};{sx};{sy};{sw};{sh};{path}\n" to the helper's    *)
(* input, omitted w, h, sx, sy, sw, sh standing for 0; redraw writes the   *)
(* same line with opcode 1; with auto_sync off it is the call's only       *)
(* write.                                                                  *)
(***************************************************************************)
C1_DrawLineExact ==
    (last.op \in {"draw", "redraw"} /\ last.path.kind = "str"
        /\ NoNewline(last.path.val))
    => LET io == LastIO
       IN /\ Len(io) >= 2
          /\ io[1].k = "write"
          /\ IsDrawLine(io[1].d, IF last.op = "draw" THEN 0 ELSE 1,
                        last.path.val, last.args)
          /\ io[2].k = "flush"
          /\ ~auto_sync => Len(io) = 2

C1_Witness ==
    /\ last.op = "redraw"
    /\ last.path = Str(<<233, 59>>)
    /\ ~auto_sync
    /\ alive
    /\ last.args.n < 0
    /\ last.args.x > 99
    /\ last.args.w = <<>>
    /\ last.args.sh = <<64>>
    /\ last.err = ""
    /\ Len(LastIO) = 2

(***************************************************************************)
(* C2.  With auto_sync on, every draw or redraw command that reached the   *)
(* helper is followed at once by the sync line "3;\n", nothing written in  *)
(* between; with auto_sync off a draw or redraw call writes its command    *)
(* and no sync line.                                                       *)
(***************************************************************************)
C2_AutoSync ==
    \A i \in 1..Len(trace) :
        (IsCall(i, {"draw", "redraw"}) /\ Issued(i))
        => IF auto_sync
           THEN /\ Len(trace) >= i + 4
                /\ trace[i + 3].k = "write"
                /\ trace[i + 3].d = <<51, 59, 10>>
                /\ trace[i + 4].k = "flush"
                /\ trace[i + 4].ok
                /\ EndsAfter(i, 4)
           ELSE EndsAfter(i, 2)

C2_Witness ==
    /\ auto_sync
    /\ \E i \in 1..Len(trace), j \in 1..Len(trace) :
          /\ i < j
          /\ IsCall(i, {"draw"}) /\ Issued(i)
          /\ IsCall(j, {"redraw"}) /\ Issued(j)
(***************************************************************************)
(* C3.  Over the life of a session that ends in teardown, the terminate    *)
(* command "2;\n" reaches the helper exactly once, whether or not the      *)
(* caller called terminate() before, and it does so before the wait on the *)
(* helper process.                                                         *)
(***************************************************************************)
TerminateSent ==
    {i \in 1..Len(trace) :
        /\ trace[i].k = "write"
        /\ trace[i].d = <<50, 59, 10>>
        /\ trace[i + 1].ok}

C3_TerminateOnce ==
    (phase = "deleted" /\ hasProc)
    => /\ Cardinality(TerminateSent) = 1
       /\ \A j \in 1..Len(trace) :
             trace[j].k = "communicate" => \E i \in TerminateSent : i < j

(***************************************************************************)
(* C4.  get_size(path) with a text path that holds no newline writes       *)
(* exactly "5;{path}\n" to the helper's input and then reads one line from *)
(* the helper's output.                                                    *)
(***************************************************************************)
C4_GetSizeCommand ==
    (last.op = "get_size" /\ last.path.kind = "str" /\ NoNewline(last.path.val))
    => LET io == LastIO
       IN /\ Len(io) >= 2
          /\ io[1].k = "write"
          /\ Len(io[1].d) >= 3
          /\ SubSeq(io[1].d, 1, 2) = <<53, 59>>
          /\ io[1].d[Len(io[1].d)] = 10
          /\ IsUtf8Of(SubSeq(io[1].d, 3, Len(io[1].d) - 1), last.path.val)
          /\ io[2].k = "flush"
          /\ io[2].ok => (Len(io) = 3 /\ io[3].k = "readline")

(***************************************************************************)
(* Response lines.                                                         *)
(***************************************************************************)
\* the last call was a get_size that read a response line
GotLine ==
    /\ last.op = "get_size"
    /\ Len(LastIO) = 3
    /\ LastIO[3].k = "readline"

Line == LastIO[3].d

\* an integer as the helper prints it: an optional sign, then digits
PlainInt(t) ==
    LET d == IF t # <<>> /\ t[1] \in {43, 45} THEN Tail(t) ELSE t
    IN d # <<>> /\ \A i \in 1..Len(d) : d[i] \in 48..57

PlainVal(t) ==
    IF t[1] = 45 THEN 0 - NatVal(Tail(t))
    ELSE IF t[1] = 43 THEN NatVal(Tail(t))
    ELSE NatVal(t)

\* line is an integer, the white space line[i..j], an integer, a newline
TwoIntsAt(line, i, j) ==
    /\ 1 < i
    /\ i <= j
    /\ j < Len(line) - 1
    /\ line[Len(line)] = 10
    /\ \A k \in i..j : line[k] \in {9, 32}
    /\ PlainInt(SubSeq(line, 1, i - 1))
    /\ PlainInt(SubSeq(line, j + 1, Len(line) - 1))

SizeAt(line, i, j) ==
    <<PlainVal(SubSeq(line, 1, i - 1)), PlainVal(SubSeq(line, j + 1, Len(line) - 1))>>

(***************************************************************************)
(* C5.  As claimed: for a response line of two integers width and height   *)
(* separated by white space and ended by a newline, get_size returns       *)
(* (width, height).                                                        *)
(***************************************************************************)
C5_AnyWhitespace ==
    GotLine
    => \A i \in 1..Len(Line), j \in 1..Len(Line) :
          TwoIntsAt(Line, i, j)
          => last.err = "" /\ last.ret = SizeAt(Line, i, j)

(***************************************************************************)
(* C5, amended.  For a response line of two integers width and height      *)
(* separated by exactly one space and ended by a newline, get_size returns *)
(* (width, height).                                                        *)
(***************************************************************************)
C5_OneSpace ==
    GotLine
    => \A i \in 1..Len(Line) :
          (TwoIntsAt(Line, i, i) /\ Line[i] = 32)
          => last.err = "" /\ last.ret = SizeAt(Line, i, i)

\* "1 -2\n"
C5_Witness ==
    /\ GotLine
    /\ Line = <<49, 32, 45, 50, 10>>
    /\ last.ret = <<1, 0 - 2>>

(***************************************************************************)
(* C6.  As claimed: for a response line that is not two integers,          *)
(* get_size fails with ProtocolError and returns no size.                  *)
(***************************************************************************)
C6_ProtocolError ==
    (GotLine /\ ~\E i \in 1..Len(Line), j \in 1..Len(Line) : TwoIntsAt(Line, i, j))
    => last.err = "ProtocolError" /\ last.ret = <<>>

\* the text has a space
HasSpace(t) == \E i \in 1..Len(t) : t[i] = 32

FirstSpace(t) == CHOOSE i \in 1..Len(t) : t[i] = 32 /\ \A k \in 1..(i - 1) : t[k] # 32

\* the text up to its first space, and the text after it
Field1(t) == IF HasSpace(t) THEN SubSeq(t, 1, FirstSpace(t) - 1) ELSE t
AfterField1(t) == SubSeq(t, FirstSpace(t) + 1, Len(t))

(***************************************************************************)
(* C6, amended.  For a response line that is not valid UTF-8, or whose     *)
(* first two fields (the line cut at single spaces) are not both integer   *)
(* literals of int(), get_size returns no size and raises, to its caller:  *)
(* UnicodeDecodeError (a ValueError) for bytes that do not decode,         *)
(* ValueError for a field that is no integer literal, IndexError for a     *)
(* line that is one integer and nothing else.                              *)
(***************************************************************************)
C6_ValueOrIndexError ==
    GotLine
    => IF ~DecodeOK(Line)
       THEN last.err = "UnicodeDecodeError" /\ last.ret = <<>>
       ELSE LET t == Decode(Line)
            IN /\ ~IntOK(Field1(t)) => (last.err = "ValueError" /\ last.ret = <<>>)
               /\ (IntOK(Field1(t)) /\ ~HasSpace(t))
                  => (last.err = "IndexError" /\ last.ret = <<>>)
               /\ (IntOK(Field1(t)) /\ HasSpace(t) /\ ~IntOK(Field1(AfterField1(t))))
                  => (last.err = "ValueError" /\ last.ret = <<>>)

\* "2\n": one integer
C6_Witness ==
    /\ GotLine
    /\ Line = <<50, 10>>
    /\ last.err = "IndexError"
    /\ last.ret = <<>>

(***************************************************************************)
(* C7.  As claimed: constructing a session on an executable that is        *)
(* missing or cannot be launched fails with ProcessSpawnError, and no      *)
(* running session results.                                                *)
(***************************************************************************)
C7_ProcessSpawnError ==
    (last.op = "__init__" /\ last.path.val \notin Launchable)
    => /\ last.err = "ProcessSpawnError"
       /\ phase = "failed"
       /\ ~hasProc

(***************************************************************************)
(* C7, amended.  Constructing a session on an executable that is missing   *)
(* or cannot be launched fails with the OSError that Popen raises          *)
(* (FileNotFoundError, PermissionError), and no running session results:   *)
(* no process is bound, and nothing is ever written to or read from one.   *)
(***************************************************************************)
C7_PopenError ==
    /\ (last.op = "__init__" /\ last.path.val \notin Launchable)
       => /\ last.err \in {"FileNotFoundError", "PermissionError"}
          /\ phase = "failed"
          /\ ~hasProc
    /\ (phase \in {"failed", "deleted"} /\ ~hasProc)
       => \A i \in 1..Len(trace) : trace[i].k = "call"

C7_Witness ==
    /\ last.op = "__init__"
    /\ last.path = Str(<<47, 101>>)
    /\ last.err = "PermissionError"
    /\ phase = "failed"

(***************************************************************************)
(* C8.  Whatever came before, earlier terminate calls included, each call  *)
(* of terminate() writes exactly "2;\n" to the helper's input, flushes it  *)
(* at once, and reads nothing from the helper's output.                    *)
(***************************************************************************)
C8_TerminateWrites ==
    \A i \in 1..Len(trace) :
        IsCall(i, {"terminate"})
        => /\ Len(trace) >= i + 2
           /\ trace[i + 1].k = "write"
           /\ trace[i + 1].d = <<50, 59, 10>>
           /\ trace[i + 2].k = "flush"
           /\ EndsAfter(i, 2)

C8_Witness ==
    \E i \in 1..Len(trace), j \in 1..Len(trace) :
        /\ i < j
        /\ IsCall(i, {"terminate"}) /\ Issued(i)
        /\ IsCall(j, {"terminate"}) /\ Issued(j)
        /\ last.op = "terminate"

(***************************************************************************)
(* C9.  On every teardown the process handle and its streams are released  *)
(* (the helper is waited on, its pipes closed), also when the terminate    *)
(* command cannot be written.                                              *)
(***************************************************************************)
C9_AlwaysReleased ==
    (phase = "deleted" /\ hasProc)
    => \E i \in 1..Len(trace) : trace[i].k = "communicate"

(***************************************************************************)
(* C10.  The lines read from the helper's output are as many as the nop    *)
(* and get_size calls that issued their command: each such call reads one  *)
(* line right after its command (nop's is "4;\n") and nothing more, and    *)
(* no other operation reads.                                               *)
(***************************************************************************)
Readlines == {i \in 1..Len(trace) : trace[i].k = "readline"}

IssuedQueries ==
    {i \in 1..Len(trace) : IsCall(i, {"nop", "get_size"}) /\ Issued(i)}

C10_ReadsMatchQueries ==
    /\ Cardinality(Readlines) = Cardinality(IssuedQueries)
    /\ \A i \in IssuedQueries :
          /\ Len(trace) >= i + 3
          /\ trace[i + 3].k = "readline"
          /\ EndsAfter(i, 3)
          /\ trace[i].a = "nop" => trace[i + 1].d = <<52, 59, 10>>
    \* nop drops the line it read
    /\ last.op = "nop" => last.ret = <<>>

C10_Witness ==
    /\ \E i \in IssuedQueries : trace[i].a = "nop"
    /\ \E i \in IssuedQueries : trace[i].a = "get_size"
    /\ last.op = "write"
    /\ last.path = Bytes(<<52, 59, 10>>)
    /\ last.err = ""
=============================================================================
